---------------------------- MODULE Spec2Model ----------------------------
(***************************************************************************)
(* Model of runEsBuildBuildAction, the build / watch / rebuild generator   *)
(* of the esbuild based builders.  One action per segment of the async     *)
(* generator between two suspension points (await or yield), plus the      *)
(* actions of its environment: the consumer of the sequence, the abort     *)
(* signal, the watcher's change iterator, the build action, the file       *)
(* system and the artifact writer.                                         *)
(***************************************************************************)
EXTENDS Naturals, Sequences, FiniteSets, TLC

(* ------------------------------ bounds -------------------------------- *)

\* most build-action invocations in one run (initial build + rebuilds)
MaxBuilds == 3

\* longest watchFiles list a build result declares (duplicates allowed)
MaxWatchLen == 2

(* --------------------------- input domains ---------------------------- *)

workspaceRoot == "/ws"

projectRoot == "/ws/proj"

\* options.outputPath: either the workspace root itself or a directory in it
OutputPaths == {"/ws", "/ws/dist"}

\* paths a build result may declare in watchFiles
WatchPaths == {"/ws/proj/a.ts", "/ws/proj/b.ts", "/ws/package.json"}

\* output and asset files of a build result; the predicate below plays the
\* role of a configured writeToFileSystemFilter
ResultFiles ==
    {[outputFiles |-> <<"main.js", "main.js.map", "polyfills.js">>,
      assetFiles |-> <<"assets/logo.svg", "assets/data.map">>],
     [outputFiles |-> <<"main.js.map">>, assetFiles |-> <<>>]}

OutputFileLists == {f.outputFiles : f \in ResultFiles}

\* ChangeSets surfaced by the watcher
ChangeSets == {"chgA", "chgB"}

\* path.join(workspaceRoot, file) of every packageWatchFiles entry
packageWatchFiles ==
    {"/ws/package.json", "/ws/package-lock.json", "/ws/pnpm-lock.yaml",
     "/ws/yarn.lock", "/ws/.pnp.cjs", "/ws/.pnp.data.json"}

\* a predicate that turns every source map down
writeToFileSystemFilter(file) == file \notin {"main.js.map", "assets/data.map"}

NoResult ==
    [id |-> 0, watchFiles |-> <<>>, outputFiles |-> <<>>, assetFiles |-> <<>>]

NoYield == [kind |-> "none", result |-> 0]

NoWrite ==
    [outputFiles |-> <<>>, assetFiles |-> <<>>, filtered |-> FALSE,
     result |-> 0]

(* ----------------------------- helpers -------------------------------- *)

Range(s) == {s[i] : i \in 1..Len(s)}

SeqsUpTo(S, n) == UNION {[1..k -> S] : k \in 0..n}

WatchFileLists == SeqsUpTo(WatchPaths, MaxWatchLen)

VARIABLES
    opts,                \* the options object, fixed for the run
    pc,                  \* position of the generator
    outcome,             \* "none" while alive, then "return" or "throw"
    pendingError,        \* an exception is propagating through the finally block
    aborted,             \* options.signal.aborted
    listener,            \* the abort listener of line 501 is registered
    result,              \* let result
    previousWatchFiles,  \* let previousWatchFiles
    watcher,             \* "none", "open", "closed"
    subscribed,          \* paths passed to watcher.add and not since to remove
    actionCalls,         \* invocations of action
    rebuildState,        \* argument of the latest invocation not yet resolved
    changes,             \* ChangeSet of the loop pass whose build is in flight
    yields,              \* results yielded so far
    lastYield,           \* kind and result of the latest yielded value
    rmCalls, mkdirCalls, writeCalls, lastWrite,
    errorLogs, infoLogs,
    addCalls, removeCalls, closeCalls,
    lastAdd, lastRemove, \* arguments of the latest add / remove of a rebuild
    oldWatchFiles,       \* paths in watchFiles of the result a rebuild replaced
    addsSinceYield, removesSinceYield,
    disposed,            \* ids of the results dispose() was called on
    disposeCalls,
    shutdownCalls,       \* shutdownSassWorkerPool()
    closeOk, disposeOk,  \* how the two promises settled, while awaited
    requests,            \* next() calls of the consumer
    returnedAt,          \* where the generator stood when return() was called
    failure,             \* the operation that rejected, if one did
    delivered            \* ChangeSets the watcher's iterator has handed over

vars == <<opts, pc, outcome, pendingError, aborted, listener, result,
          previousWatchFiles, watcher, subscribed, actionCalls, rebuildState,
          changes, yields, lastYield, rmCalls, mkdirCalls, writeCalls, lastWrite,
          errorLogs, infoLogs, addCalls, removeCalls, closeCalls, lastAdd,
          lastRemove, oldWatchFiles, addsSinceYield, removesSinceYield,
          disposed, disposeCalls, shutdownCalls, closeOk, disposeOk,
          requests, returnedAt, failure, delivered>>

ctl == <<pc, outcome, pendingError>>

sig == <<aborted, listener>>

bld == <<result, actionCalls, rebuildState, changes, delivered>>

wat == <<watcher, subscribed, addCalls, removeCalls, closeCalls,
         previousWatchFiles>>

dif == <<lastAdd, lastRemove, oldWatchFiles, addsSinceYield,
         removesSinceYield>>

out == <<yields, lastYield>>

fsv == <<rmCalls, mkdirCalls, writeCalls, lastWrite>>

log == <<errorLogs, infoLogs>>

rel == <<disposed, disposeCalls, shutdownCalls, closeOk, disposeOk>>

Options ==
    [writeToFileSystem : BOOLEAN, hasFilter : BOOLEAN, watch : BOOLEAN,
     verbose : BOOLEAN, progress : BOOLEAN, deleteOutputPath : BOOLEAN,
     outputPath : OutputPaths, hasSignal : BOOLEAN]

Init ==
    /\ opts \in Options
    /\ pc = "start"
    /\ outcome = "none"
    /\ pendingError = FALSE
    /\ aborted = FALSE
    /\ listener = FALSE
    /\ result = NoResult
    /\ previousWatchFiles = {}
    /\ watcher = "none"
    /\ subscribed = {}
    /\ actionCalls = 0
    /\ rebuildState = "none"
    /\ changes = "none"
    /\ yields = 0
    /\ lastYield = NoYield
    /\ rmCalls = 0 /\ mkdirCalls = 0 /\ writeCalls = 0 /\ lastWrite = NoWrite
    /\ errorLogs = 0 /\ infoLogs = 0
    /\ addCalls = 0 /\ removeCalls = 0 /\ closeCalls = 0
    /\ lastAdd = <<>> /\ lastRemove = {}
    /\ oldWatchFiles = {}
    /\ addsSinceYield = 0 /\ removesSinceYield = 0
    /\ disposed = {} /\ disposeCalls = 0
    /\ shutdownCalls = 0
    /\ closeOk = TRUE /\ disposeOk = TRUE
    /\ requests = 0
    /\ returnedAt = "none"
    /\ failure = "none"
    /\ delivered = 0


(* ------------------- pure parts of the generator ---------------------- *)

\* the workspace-root check left out
RefuseOutputPath_Never(outputPath) == FALSE

\* line 444: the output path that must never be deleted
RefuseOutputPath(outputPath) == outputPath = workspaceRoot

\* the pool shut down after every initial build
ShutdownAfterInitialBuild_Always(watch) == TRUE

\* lines 471-475: finally { if (!watch) shutdownSassWorkerPool() }
ShutdownAfterInitialBuild(watch) == ~watch

\* the first result emitted with the watcher setup left out
AfterInitialBuild_SkipSetup(watch) == "emit1"

\* lines 477-479: where the generator goes once the initial build returned
AfterInitialBuild(watch) == IF watch THEN "setup" ELSE "emit1"

\* the watch loop entered whether or not a watcher exists
WatchPhase_Always(w) == TRUE

\* lines 541-543: if (!watcher) return
WatchPhase(w) == w # "none"

\* the abort check before a rebuild left out
BreakOnAbort_Never(hasSignal, isAborted) == FALSE

\* line 549: if (options.signal?.aborted) break
BreakOnAbort(hasSignal, isAborted) == hasSignal /\ isAborted

\* every watch file of the new result added again
AddedPaths_All(watchFiles, previous) == watchFiles

\* line 563: result.watchFiles.filter((f) => !previousWatchFiles.has(f))
AddedPaths(watchFiles, previous) ==
    SelectSeq(watchFiles, LAMBDA f : f \notin previous)

\* line 566: [...previousWatchFiles].filter((f) => !newWatchFiles.has(f))
RemovedPaths(previous, newWatchFiles) ==
    {f \in previous : f \notin newWatchFiles}

\* every output file written on a rebuild, whatever the predicate says
FilesToWrite_Unfiltered(hasFilter, outputFiles) == outputFiles

\* lines 571-573: the output files handed to writeResultFiles on a rebuild
FilesToWrite(hasFilter, outputFiles) ==
    IF hasFilter THEN SelectSeq(outputFiles, writeToFileSystemFilter)
                 ELSE outputFiles

\* the object carrying the files yielded in every mode
YieldKind_WithFiles(writeToFileSystem) == "outputWithFiles"

\* the plain summary yielded in every mode
YieldKind_Summary(writeToFileSystem) == "output"

\* lines 533, 537, 576, 580: which object of the result is yielded
YieldKind(writeToFileSystem) ==
    IF writeToFileSystem THEN "output" ELSE "outputWithFiles"

\* a rebuild state that forgets which files changed
createRebuildState_NoChanges(r, c) == <<r.id, "chgA">>

\* line 558: result.createRebuildState(changes), the token of a rebuild: it
\* is derived from the result it is called on and from the ChangeSet
createRebuildState(r, c) == <<r.id, c>>

\* an exception inside the loop swallowed, the loop going on to the next
\* ChangeSet
OnLoopError_Continue == "waiting"

\* an exception inside the loop leaving the generator at once
OnLoopError_NoFinally == "done"

\* lines 547, 583: an exception inside the try block runs the finally block
OnLoopError == "drain"

\* the generator ends: by return, or by an exception reaching the consumer
Finish(how) ==
    /\ pc' = "done"
    /\ outcome' = how
    /\ pendingError' = FALSE

\* a finally block that runs its close and dispose a second time
Goto_Redrain(p) ==
    /\ pc' = IF p = "settling" /\ disposeCalls = 0 THEN "drain" ELSE p
    /\ UNCHANGED <<outcome, pendingError>>

\* the generator running on after a yield of the loop instead of suspending
Goto_SkipYield(p) ==
    /\ pc' = IF p = "yield" THEN "waiting" ELSE p
    /\ UNCHANGED <<outcome, pendingError>>

\* the generator moves on to its next suspension point
Goto(p) ==
    /\ pc' = p
    /\ UNCHANGED <<outcome, pendingError>>

\* yield of the current result (lines 533, 537, 576, 580)
Yield(r) ==
    /\ yields' = yields + 1
    /\ lastYield' = [kind |-> YieldKind(opts.writeToFileSystem), result |-> r.id]

(* ------------------------------ consumer ------------------------------ *)

\* the consumer calls next() on the suspended generator
ConsumerNext ==
    \/ /\ pc = "start"
       /\ Goto("prepare")
       /\ UNCHANGED <<opts, sig, bld, wat, dif, out, fsv, log, rel>>
    \/ /\ pc = "yield1"
       /\ IF WatchPhase(watcher)
            THEN /\ previousWatchFiles' = Range(result.watchFiles)
                 /\ Goto("waiting")
            ELSE /\ Finish("return")
                 /\ UNCHANGED previousWatchFiles
       /\ addsSinceYield' = 0 /\ removesSinceYield' = 0
       /\ UNCHANGED <<lastAdd, lastRemove, oldWatchFiles>>
       /\ UNCHANGED <<watcher, subscribed, addCalls, removeCalls, closeCalls>>
       /\ UNCHANGED <<opts, sig, bld, out, fsv, log, rel>>
    \/ /\ pc = "yield"
       /\ Goto("waiting")
       /\ addsSinceYield' = 0 /\ removesSinceYield' = 0
       /\ lastAdd' = <<>> /\ lastRemove' = {} /\ oldWatchFiles' = {}
       /\ UNCHANGED <<opts, sig, bld, wat, out, fsv, log, rel>>
    /\ requests' = requests + 1
    /\ UNCHANGED <<returnedAt, failure>>

\* the consumer stops iterating: return() on the suspended generator
ConsumerReturn ==
    /\ \/ /\ pc \in {"start", "yield1"}
          /\ Finish("return")
       \/ /\ pc = "yield"
          /\ Goto("drain")
    /\ UNCHANGED <<opts, sig, bld, wat, dif, out, fsv, log, rel>>
    /\ returnedAt' = pc
    /\ UNCHANGED <<requests, failure>>

(* ------------------------------- signal ------------------------------- *)

\* a signal that also cancels the build action in flight
Abort_CancelsBuild ==
    /\ opts.hasSignal
    /\ ~aborted
    /\ aborted' = TRUE
    /\ IF listener
         THEN /\ watcher' = "closed"
              /\ closeCalls' = closeCalls + 1
         ELSE UNCHANGED <<watcher, closeCalls>>
    /\ pc' = IF pc = "rebuilding" THEN "drain" ELSE pc
    /\ UNCHANGED <<outcome, pendingError>>
    /\ UNCHANGED <<subscribed, addCalls, removeCalls, previousWatchFiles>>
    /\ UNCHANGED <<opts, listener, bld, dif, out, fsv, log, rel>>
    /\ UNCHANGED <<requests, returnedAt, failure>>

\* options.signal fires; the listener of line 501 closes the watcher
Abort ==
    /\ opts.hasSignal
    /\ ~aborted
    /\ aborted' = TRUE
    /\ IF listener
         THEN /\ watcher' = "closed"
              /\ closeCalls' = closeCalls + 1
         ELSE UNCHANGED <<watcher, closeCalls>>
    /\ UNCHANGED <<subscribed, addCalls, removeCalls, previousWatchFiles>>
    /\ UNCHANGED <<opts, ctl, listener, bld, dif, out, fsv, log, rel>>
    /\ UNCHANGED <<requests, returnedAt, failure>>

(* ----------------------------- preparing ------------------------------ *)

\* lines 441-451 up to the call of fs.rm
Prepare ==
    /\ pc = "prepare"
    /\ IF ~opts.writeToFileSystem
         THEN Goto("build") /\ UNCHANGED errorLogs
         ELSE IF ~opts.deleteOutputPath
         THEN Goto("mkdir") /\ UNCHANGED errorLogs
         ELSE IF RefuseOutputPath(opts.outputPath)
         THEN errorLogs' = errorLogs + 1 /\ Finish("return")
         ELSE Goto("rm") /\ UNCHANGED errorLogs
    /\ UNCHANGED <<opts, sig, bld, wat, dif, out, fsv, infoLogs, rel>>
    /\ UNCHANGED <<requests, returnedAt, failure>>

\* line 450: await fs.rm(outputPath, ...), which may reject
RemoveOutputPath ==
    /\ pc = "rm"
    /\ rmCalls' = rmCalls + 1
    /\ \E ok \in BOOLEAN :
         IF ok THEN Goto("mkdir") /\ UNCHANGED failure
               ELSE Finish("throw") /\ failure' = "rm"
    /\ UNCHANGED <<mkdirCalls, writeCalls, lastWrite>>
    /\ UNCHANGED <<opts, sig, bld, wat, dif, out, log, rel>>
    /\ UNCHANGED <<requests, returnedAt>>

\* lines 454-461: await fs.mkdir(outputPath, ...) inside try / catch
CreateOutputPath ==
    /\ pc = "mkdir"
    /\ mkdirCalls' = mkdirCalls + 1
    /\ \E ok \in BOOLEAN :
         IF ok THEN Goto("build") /\ UNCHANGED <<errorLogs, failure>>
               ELSE /\ errorLogs' = errorLogs + 1
                    /\ failure' = "mkdir"
                    /\ Finish("return")
    /\ UNCHANGED <<rmCalls, writeCalls, lastWrite>>
    /\ UNCHANGED <<opts, sig, bld, wat, dif, out, infoLogs, rel>>
    /\ UNCHANGED <<requests, returnedAt>>

(* --------------------------- initial build ---------------------------- *)

\* line 469: action() is invoked without a rebuild state
StartInitialBuild ==
    /\ pc = "build"
    /\ actionCalls' = actionCalls + 1
    /\ rebuildState' = "none"
    /\ Goto("building")
    /\ UNCHANGED <<opts, sig, result, changes, delivered, wat, dif, out, fsv,
                   log, rel>>
    /\ UNCHANGED <<requests, returnedAt, failure>>

\* lines 469-475: the action settles; the finally block runs either way
FinishInitialBuild ==
    /\ pc = "building"
    /\ shutdownCalls' = IF ShutdownAfterInitialBuild(opts.watch)
                           THEN shutdownCalls + 1
                           ELSE shutdownCalls
    /\ \/ \E wf \in WatchFileLists, files \in ResultFiles :
            /\ result' = [id |-> actionCalls, watchFiles |-> wf,
                          outputFiles |-> files.outputFiles,
                          assetFiles |-> files.assetFiles]
            /\ Goto(AfterInitialBuild(opts.watch))
            /\ UNCHANGED failure
       \/ /\ Finish("throw")
          /\ failure' = "initial"
          /\ UNCHANGED result
    /\ UNCHANGED <<disposed, disposeCalls, closeOk, disposeOk>>
    /\ UNCHANGED <<opts, sig, actionCalls, rebuildState, changes, delivered,
                   wat, dif,
                   out, fsv, log>>
    /\ UNCHANGED <<requests, returnedAt>>

\* lines 479-524: create the watcher, register the abort listener, subscribe
SetupWatcher ==
    /\ pc = "setup"
    /\ infoLogs' = IF opts.progress THEN infoLogs + 1 ELSE infoLogs
    /\ watcher' = "open"
    /\ listener' = opts.hasSignal
    /\ subscribed' = ((subscribed \cup {projectRoot}) \cup packageWatchFiles)
                        \cup Range(result.watchFiles)
    /\ addCalls' = addCalls + 3
    /\ addsSinceYield' = addsSinceYield + 3
    /\ Goto("emit1")
    /\ UNCHANGED <<removeCalls, closeCalls, previousWatchFiles>>
    /\ UNCHANGED <<lastAdd, lastRemove, oldWatchFiles, removesSinceYield>>
    /\ UNCHANGED <<opts, aborted, bld, out, fsv, errorLogs, rel>>
    /\ UNCHANGED <<requests, returnedAt, failure>>

\* lines 529-538 up to the first suspension: the write call or the yield
EmitFirst ==
    /\ pc = "emit1"
    /\ IF opts.writeToFileSystem
         THEN /\ writeCalls' = writeCalls + 1
              /\ lastWrite' = [outputFiles |-> result.outputFiles,
                               assetFiles |-> result.assetFiles,
                               filtered |-> FALSE, result |-> result.id]
              /\ Goto("writing1")
              /\ UNCHANGED out
         ELSE /\ Yield(result)
              /\ Goto("yield1")
              /\ UNCHANGED <<writeCalls, lastWrite>>
    /\ UNCHANGED <<rmCalls, mkdirCalls>>
    /\ UNCHANGED <<opts, sig, bld, wat, dif, log, rel>>
    /\ UNCHANGED <<requests, returnedAt, failure>>

\* line 531-533: writeResultFiles settles; a rejection leaves the generator
FirstWriteDone ==
    /\ pc = "writing1"
    /\ \/ Yield(result) /\ Goto("yield1") /\ UNCHANGED failure
       \/ Finish("throw") /\ failure' = "write1" /\ UNCHANGED out
    /\ UNCHANGED <<opts, sig, bld, wat, dif, fsv, log, rel>>
    /\ UNCHANGED <<requests, returnedAt>>

(* ----------------------------- watch loop ----------------------------- *)

\* lines 548-559: the watcher's iterator delivers a ChangeSet
ChangeDelivered ==
    /\ pc = "waiting"
    /\ delivered' = delivered + 1
    /\ \E c \in ChangeSets :
         IF BreakOnAbort(opts.hasSignal, aborted)
           THEN /\ Goto("drain")
                /\ UNCHANGED <<infoLogs, actionCalls, rebuildState, changes>>
           ELSE /\ actionCalls < MaxBuilds
                /\ infoLogs' = IF opts.verbose THEN infoLogs + 1 ELSE infoLogs
                /\ actionCalls' = actionCalls + 1
                /\ changes' = c
                /\ rebuildState' = createRebuildState(result, c)
                /\ Goto("rebuilding")
    /\ UNCHANGED <<opts, sig, result, wat, dif, out, fsv, errorLogs, rel>>
    /\ UNCHANGED <<requests, returnedAt, failure>>

\* line 548: the iterator of a closed watcher completes
WatcherCompleted ==
    /\ pc = "waiting"
    /\ watcher = "closed"
    /\ Goto("drain")
    /\ UNCHANGED <<opts, sig, bld, wat, dif, out, fsv, log, rel>>
    /\ UNCHANGED <<requests, returnedAt, failure>>

\* lines 557-581 up to the next suspension: the rebuild settles
FinishRebuild ==
    /\ pc = "rebuilding"
    /\ \/ \E wf \in WatchFileLists, files \in ResultFiles :
            /\ result' = [id |-> actionCalls, watchFiles |-> wf,
                          outputFiles |-> files.outputFiles,
                          assetFiles |-> files.assetFiles]
            /\ lastAdd' = AddedPaths(wf, previousWatchFiles)
            /\ lastRemove' = RemovedPaths(previousWatchFiles, Range(wf))
            /\ subscribed' = (subscribed \cup Range(lastAdd')) \ lastRemove'
            /\ addCalls' = addCalls + 1
            /\ removeCalls' = removeCalls + 1
            /\ addsSinceYield' = addsSinceYield + 1
            /\ removesSinceYield' = removesSinceYield + 1
            /\ oldWatchFiles' = Range(result.watchFiles)
            /\ previousWatchFiles' = Range(wf)
            /\ IF opts.writeToFileSystem
                 THEN /\ writeCalls' = writeCalls + 1
                      /\ lastWrite' =
                           [outputFiles |-> FilesToWrite(opts.hasFilter,
                                                         files.outputFiles),
                            assetFiles |-> files.assetFiles,
                            filtered |-> opts.hasFilter,
                            result |-> actionCalls]
                      /\ Goto("writing")
                      /\ UNCHANGED out
                 ELSE /\ Yield(result')
                      /\ Goto("yield")
                      /\ UNCHANGED <<writeCalls, lastWrite>>
            /\ rebuildState' = "none"
            /\ UNCHANGED <<watcher, closeCalls, failure>>
       \/ /\ pc' = OnLoopError
          /\ pendingError' = TRUE
          /\ failure' = "rebuild"
          /\ UNCHANGED <<outcome, result, wat, dif, out, writeCalls,
                         lastWrite, rebuildState>>
    /\ changes' = "none"
    /\ UNCHANGED <<rmCalls, mkdirCalls>>
    /\ UNCHANGED <<opts, sig, actionCalls, delivered, log, rel>>
    /\ UNCHANGED <<requests, returnedAt>>

\* lines 574-576: writeResultFiles of a rebuild settles
WriteDone ==
    /\ pc = "writing"
    /\ \/ Yield(result) /\ Goto("yield") /\ UNCHANGED failure
       \/ /\ pc' = OnLoopError
          /\ pendingError' = TRUE
          /\ failure' = "write"
          /\ UNCHANGED <<outcome, out>>
    /\ UNCHANGED <<opts, sig, bld, wat, dif, fsv, log, rel>>
    /\ UNCHANGED <<requests, returnedAt>>

(* ------------------------------ draining ------------------------------ *)

\* line 585: watcher.close() and result.dispose() are both called
DrainStart ==
    /\ pc = "drain"
    /\ watcher' = "closed"
    /\ closeCalls' = closeCalls + 1
    /\ disposed' = disposed \cup {result.id}
    /\ disposeCalls' = disposeCalls + 1
    /\ closeOk' \in BOOLEAN
    /\ disposeOk' \in BOOLEAN
    /\ Goto("settling")
    /\ UNCHANGED <<subscribed, addCalls, removeCalls, previousWatchFiles>>
    /\ UNCHANGED <<opts, sig, bld, dif, out, fsv, log, shutdownCalls>>
    /\ UNCHANGED <<requests, returnedAt, failure>>

\* a drain that lets a failed close or dispose escape, as Promise.all would
DrainOutcome_All(err, cOk, dOk) ==
    IF err \/ ~cOk \/ ~dOk THEN "throw" ELSE "return"

\* lines 583-588: Promise.allSettled never rejects, so the finally block ends
\* by rethrowing the exception it was entered with, if any
DrainOutcome(err, cOk, dOk) == IF err THEN "throw" ELSE "return"

\* lines 585-588: allSettled resolves, the pool is shut down, the generator
\* ends, rethrowing the exception that entered the finally block
DrainSettled ==
    /\ pc = "settling"
    /\ shutdownCalls' = shutdownCalls + 1
    /\ pc' = "done"
    /\ outcome' = DrainOutcome(pendingError, closeOk, disposeOk)
    /\ pendingError' = FALSE
    /\ closeOk' = TRUE /\ disposeOk' = TRUE
    /\ UNCHANGED <<disposed, disposeCalls>>
    /\ UNCHANGED <<opts, sig, bld, wat, dif, out, fsv, log>>
    /\ UNCHANGED <<requests, returnedAt, failure>>

Next ==
    \/ ConsumerNext
    \/ ConsumerReturn
    \/ Abort
    \/ Prepare
    \/ RemoveOutputPath
    \/ CreateOutputPath
    \/ StartInitialBuild
    \/ FinishInitialBuild
    \/ SetupWatcher
    \/ EmitFirst
    \/ FirstWriteDone
    \/ ChangeDelivered
    \/ WatcherCompleted
    \/ FinishRebuild
    \/ WriteDone
    \/ DrainStart
    \/ DrainSettled

Spec == Init /\ [][Next]_vars

TypeOK ==
    /\ opts \in Options
    /\ pc \in {"start", "prepare", "rm", "mkdir", "build", "building",
               "setup", "emit1", "writing1", "yield1", "waiting",
               "rebuilding", "writing", "yield", "drain", "settling", "done"}
    /\ outcome \in {"none", "return", "throw"}
    /\ watcher \in {"none", "open", "closed"}
    /\ actionCalls \in 0..MaxBuilds
    /\ yields \in 0..MaxBuilds
    /\ requests \in 0..(MaxBuilds + 1)
    /\ delivered \in 0..MaxBuilds
    /\ changes \in ChangeSets \cup {"none"}
    /\ result.outputFiles \in OutputFileLists \cup {<<>>}
    /\ failure \in {"none", "rm", "mkdir", "initial", "write1", "rebuild",
                    "write"}

(* ======================== claims C1 - C10 ============================= *)

SetupPaths(r) == ({projectRoot} \cup packageWatchFiles) \cup Range(r.watchFiles)

WatchPcs == {"setup", "waiting", "rebuilding", "writing", "yield", "drain",
             "settling"}

\* C1 as stated: the first result is written and yielded before the watcher
\* is created and before any path is subscribed to it.
C1_EmitBeforeWatcher ==
    (watcher # "none" \/ addCalls > 0) =>
        /\ yields >= 1
        /\ opts.writeToFileSystem => writeCalls >= 1

\* C1 amended: in watch mode the watcher is created and the project root,
\* the package files and the first result's watch files are subscribed
\* before the first result is written and before it is yielded; with
\* persistence the write precedes the yield.
C1_WatcherBeforeEmit ==
    /\ (opts.watch /\ (writeCalls >= 1 \/ yields >= 1)) =>
          /\ watcher # "none"
          /\ addCalls >= 3
          /\ pc \in {"writing1", "yield1"} =>
                (addCalls = 3 /\ subscribed = SetupPaths(result))
    /\ (opts.writeToFileSystem /\ yields >= 1) => writeCalls >= 1

C1_Witness ==
    /\ opts.watch /\ opts.writeToFileSystem
    /\ pc = "yield1" /\ yields = 1 /\ writeCalls = 1
    /\ watcher = "open" /\ addCalls = 3

\* C2 as stated: with watch disabled, whenever the build action returned
\* successfully the finished sequence has yielded exactly one result, the
\* action was invoked exactly once and no watcher was created.
C2_OneResultWithoutWatch ==
    (~opts.watch /\ result.id >= 1 /\ pc = "done") =>
        (yields = 1 /\ actionCalls = 1 /\ watcher = "none")

\* C2 amended: with watch disabled no watcher is ever created, the action is
\* invoked at most once, the watch loop is never entered, and a finished
\* sequence whose build action returned successfully has yielded exactly one
\* result unless writing the result files failed, in which case it yielded
\* none and ended with that error.
C2_OneResultUnlessWriteFails ==
    ~opts.watch =>
        /\ watcher = "none" /\ addCalls = 0
        /\ actionCalls <= 1
        /\ yields <= 1
        /\ pc \notin WatchPcs
        /\ (pc = "done" /\ result.id >= 1 /\ failure # "write1") =>
              (yields = 1 /\ actionCalls = 1)
        /\ failure = "write1" =>
              (yields = 0 /\ pc = "done" /\ outcome = "throw")

C2_Witness ==
    /\ ~opts.watch /\ opts.writeToFileSystem
    /\ pc = "done" /\ outcome = "return"
    /\ yields = 1 /\ requests = 2 /\ actionCalls = 1

\* C3: between the emission of the old result and that of the new one the
\* watcher receives exactly one add, of the paths of the new watch files
\* that are not in the old ones, and exactly one remove, of the paths of the
\* old watch files that are not in the new ones; a path in both is neither
\* added nor removed.
C3_WatchSetDelta ==
    pc \in {"writing", "yield"} =>
        /\ addsSinceYield = 1
        /\ removesSinceYield = 1
        /\ Range(lastAdd) = Range(result.watchFiles) \ oldWatchFiles
        /\ lastRemove = oldWatchFiles \ Range(result.watchFiles)
        /\ Range(lastAdd) \cap oldWatchFiles = {}
        /\ lastRemove \subseteq oldWatchFiles
        /\ \A f \in Range(result.watchFiles) \cap oldWatchFiles :
              f \notin Range(lastAdd) /\ f \notin lastRemove

C3_Witness ==
    /\ pc = "yield"
    /\ actionCalls = 3
    /\ oldWatchFiles = {"/ws/proj/a.ts", "/ws/proj/b.ts"}
    /\ result.watchFiles = <<"/ws/proj/b.ts", "/ws/package.json">>
    /\ lastAdd = <<"/ws/package.json">>
    /\ lastRemove = {"/ws/proj/a.ts"}

\* C4 as stated: after watch setup and after every completed rebuild the
\* subscribed paths are exactly the current result's watch files and the
\* package files.
C4_WatchSetExact ==
    (watcher # "none" /\
     pc \in {"emit1", "writing1", "yield1", "waiting", "writing", "yield"}) =>
        subscribed = Range(result.watchFiles) \cup packageWatchFiles

\* C5: once the signal has fired and the loop waits for a change, no step
\* invokes the build action, logs, updates the watch set, writes or yields;
\* the loop only leaves the wait for the drain, and the sequence ends only
\* after the watcher was closed and the latest result disposed.
C5_NoRebuildAfterAbort ==
    [][/\ (aborted /\ pc = "waiting") =>
             /\ pc' \in {"waiting", "drain"}
             /\ ~pendingError'
             /\ UNCHANGED <<actionCalls, rebuildState, result, yields,
                            infoLogs, addCalls, removeCalls, subscribed,
                            writeCalls>>
       /\ pc = "drain" =>
             /\ pc' \in {"drain", "settling"}
             /\ UNCHANGED <<actionCalls, result, yields, pendingError>>
             /\ pc' = "settling" =>
                   (watcher' = "closed" /\ result.id \in disposed')
       /\ pc = "settling" =>
             /\ pc' \in {"settling", "done"}
             /\ UNCHANGED <<actionCalls, result, yields, disposed>>
             /\ watcher' = "closed"
             /\ pc' = "done" =>
                   outcome' = IF pendingError THEN "throw" ELSE "return"
      ]_vars

C5_Witness ==
    /\ aborted /\ listener
    /\ pc = "done" /\ outcome = "return"
    /\ failure = "none" /\ returnedAt = "none"
    /\ closeCalls = 2 /\ watcher = "closed"
    /\ result.id \in disposed
    /\ actionCalls = 2 /\ yields = 2

\* C6 as stated: with deleteOutputPath set and outputPath equal to the
\* workspace root, whatever the other options, nothing is yielded, nothing
\* is deleted, the build action is not invoked and one error is logged.
C6_RefuseWorkspaceRoot ==
    (opts.deleteOutputPath /\ opts.outputPath = workspaceRoot) =>
        /\ yields = 0 /\ rmCalls = 0 /\ actionCalls = 0
        /\ errorLogs <= 1
        /\ (requests >= 1 /\ pc # "prepare") => errorLogs = 1

\* C6 amended: the same, provided writeToFileSystem is enabled.
C6_RefuseWorkspaceRootWhenWriting ==
    (opts.writeToFileSystem /\ opts.deleteOutputPath
        /\ opts.outputPath = workspaceRoot) =>
        /\ yields = 0 /\ rmCalls = 0 /\ mkdirCalls = 0 /\ actionCalls = 0
        /\ errorLogs <= 1
        /\ pc \in {"start", "prepare", "done"}
        /\ (requests >= 1 /\ pc # "prepare") =>
              (errorLogs = 1 /\ pc = "done" /\ outcome = "return")

C6_Witness ==
    /\ opts.writeToFileSystem /\ opts.deleteOutputPath
    /\ opts.outputPath = workspaceRoot
    /\ pc = "done" /\ requests = 1 /\ errorLogs = 1

\* C7: with writeToFileSystem false no fs.rm, fs.mkdir or writeResultFiles
\* call is made and every yielded value is the result's outputWithFiles.
C7_NoFileSystemUse ==
    ~opts.writeToFileSystem =>
        /\ rmCalls = 0 /\ mkdirCalls = 0 /\ writeCalls = 0
        /\ yields >= 1 =>
              (lastYield.kind = "outputWithFiles"
                 /\ lastYield.result = result.id)

C7_Witness ==
    /\ ~opts.writeToFileSystem /\ opts.deleteOutputPath
    /\ pc = "yield" /\ yields = 2
    /\ lastYield.kind = "outputWithFiles"

\* C8 as stated: when the sequence has ended after the build action was
\* invoked, the watcher is closed if it was created, the latest result is
\* disposed if one was produced, and the helper shutdown was invoked.
C8_ReleaseOnEveryExit ==
    (pc = "done" /\ actionCalls >= 1) =>
        /\ watcher # "none" => (watcher = "closed" /\ closeCalls >= 1)
        /\ result.id >= 1 => result.id \in disposed
        /\ shutdownCalls >= 1

\* C9 as stated, for the runs in which a watcher exists: when the consumer
\* stopped at an emitted result and the sequence has ended, the watcher is
\* closed, the latest result disposed, the helper shut down, and no build
\* action ran after the stop.
C9_EarlyStopDrains ==
    (returnedAt \in {"yield1", "yield"} /\ pc = "done" /\ watcher # "none") =>
        /\ watcher = "closed"
        /\ result.id \in disposed
        /\ shutdownCalls >= 1
        /\ actionCalls = yields

\* C10: after a build action failed during a rebuild the generator only
\* drains: nothing was emitted for the failed build, the watch set was not
\* touched, the action is not invoked again, and the error reaches the
\* consumer only after the watcher was closed, the result whose rebuild
\* state was used was disposed and the helper was shut down.
C10_RebuildFailure ==
    failure = "rebuild" =>
        /\ pc \in {"drain", "settling", "done"}
        /\ actionCalls = result.id + 1
        /\ rebuildState[1] = result.id
        /\ yields = result.id
        /\ lastYield.result = result.id
        /\ previousWatchFiles = Range(result.watchFiles)
        /\ addsSinceYield = 0 /\ removesSinceYield = 0
        /\ pc # "done" => outcome = "none"
        /\ pc = "done" =>
              /\ outcome = "throw"
              /\ watcher = "closed"
              /\ result.id \in disposed
              /\ shutdownCalls >= 1

C10_Witness ==
    /\ failure = "rebuild"
    /\ pc = "done" /\ outcome = "throw"
    /\ actionCalls = 3 /\ yields = 2
    /\ disposed = {2}

(* ======================== claims C11 - C20 ============================ *)

\* C11 as stated: when removing the output tree or creating the output
\* directory fails, the failure is logged, the sequence ends without an
\* exception and without a result, and the build action is never invoked.
C11_PreparationFailureHandled ==
    failure \in {"rm", "mkdir"} =>
        /\ pc = "done" /\ outcome = "return"
        /\ errorLogs = 1
        /\ yields = 0 /\ actionCalls = 0

\* C12: nothing is prepared and nothing is built before the first next();
\* while the generator is suspended at a yield every build so far has been
\* requested and emitted, so a build starts only after the consumer asked
\* for the next result, and the builds never outnumber the requests.
C12_PullDriven ==
    /\ actionCalls <= requests
    /\ yields <= requests
    /\ requests = 0 =>
          /\ pc \in {"start", "done"}
          /\ rmCalls = 0 /\ mkdirCalls = 0 /\ writeCalls = 0
          /\ actionCalls = 0 /\ errorLogs = 0 /\ watcher = "none"
    /\ pc \in {"yield1", "yield"} =>
          (requests = yields /\ actionCalls = yields)
    /\ pc \in {"building", "rebuilding"} => actionCalls = requests

C12_Witness ==
    /\ pc = "rebuilding"
    /\ requests = 3 /\ actionCalls = 3 /\ yields = 2

\* C13: a build is started for a ChangeSet only when every earlier build has
\* completed, its watch-set delta has been applied and its result has been
\* emitted; the k-th ChangeSet handed over by the watcher starts the k-th
\* rebuild, and while a build is in flight nothing else of the loop runs.
C13_OneBuildAtATime ==
    /\ pc = "rebuilding" =>
          /\ actionCalls = result.id + 1
          /\ delivered = actionCalls - 1
          /\ rebuildState[1] = result.id
          /\ yields = result.id
          /\ lastYield.result = result.id
          /\ previousWatchFiles = Range(result.watchFiles)
          /\ opts.writeToFileSystem => lastWrite.result = result.id
          /\ addsSinceYield = 0 /\ removesSinceYield = 0
    /\ pc \in {"writing", "yield"} =>
          (actionCalls = result.id /\ delivered = actionCalls - 1)
    /\ pc = "waiting" =>
          (actionCalls = result.id /\ delivered = actionCalls - 1
             /\ yields = actionCalls)

C13_Witness ==
    /\ pc = "rebuilding"
    /\ actionCalls = 3 /\ delivered = 2 /\ yields = 2
    /\ rebuildState[1] = 2

C15_AbortEndsTheWait ==
    (opts.watch /\ aborted /\ pc = "waiting") =>
        (watcher = "closed" /\ ENABLED WatcherCompleted)

\* C16: however the loop is left, the drain calls both watcher.close() and
\* dispose() of the latest result, whether or not the other fails; a failure
\* of either is not raised (the sequence throws only what a build or a write
\* threw); and the pool is shut down only after both have settled, once.
C16_DrainAttemptsBoth ==
    [][/\ (pc = "drain" /\ pc' = "settling") =>
             /\ closeCalls' = closeCalls + 1
             /\ disposeCalls' = disposeCalls + 1
             /\ watcher' = "closed"
             /\ result.id \in disposed'
             /\ shutdownCalls' = shutdownCalls
       /\ (pc = "settling" /\ pc' = "done") =>
             /\ shutdownCalls' = shutdownCalls + 1
             /\ UNCHANGED <<closeCalls, disposeCalls, disposed>>
             /\ outcome' = "throw" <=> failure \in {"rebuild", "write"}
             /\ outcome' = "return" <=> failure = "none"
       /\ pc \in {"waiting", "rebuilding", "writing", "yield"} =>
             (pc' \notin {"done", "settling"} /\ shutdownCalls = 0)
       /\ pc = "drain" => (shutdownCalls = 0 /\ disposeCalls = 0)
       /\ pc = "settling" => shutdownCalls = 0
      ]_vars

C16_Witness ==
    /\ pc = "settling" /\ ~closeOk /\ ~disposeOk
    /\ failure = "none" /\ returnedAt = "yield"
    /\ watcher = "closed" /\ disposed = {result.id} /\ shutdownCalls = 0

\* C17 as stated: when the sequence has ended, dispose has been called once
\* for each BuildResult the build action produced, superseded ones included.
C17_EveryResultDisposed ==
    pc = "done" =>
        (disposeCalls = result.id /\ disposed = 1..result.id)

\* C18: there is one current result, the one the latest settled build action
\* returned; dispose is called at most once, only in the drain, only on the
\* current result, and never while the generator is still setting up, diffing,
\* writing, emitting or rebuilding from it.
C18_DisposeOnlyInDrain ==
    /\ disposeCalls <= 1
    /\ disposeCalls = 0 <=> disposed = {}
    /\ disposeCalls = 1 =>
          (disposed = {result.id} /\ pc \in {"settling", "done"})
    /\ pc \in {"setup", "emit1", "writing1", "yield1", "waiting",
               "rebuilding", "writing", "yield", "drain"} =>
          disposed = {}
    /\ pc = "rebuilding" =>
          (rebuildState[1] = result.id /\ result.id \notin disposed)
    /\ pc \in {"writing", "yield", "writing1", "yield1"} =>
          (result.id >= 1 /\ result.id \notin disposed)
    /\ result.id <= actionCalls /\ result.id >= actionCalls - 1

C18_Witness ==
    /\ pc = "done" /\ disposed = {2} /\ disposeCalls = 1
    /\ returnedAt = "yield" /\ yields = 2

\* C19: with writeToFileSystem true the results are written and emitted one
\* by one in build order: result k is handed to writeResultFiles once, is
\* yielded only after that write has settled, as the plain output summary,
\* and a result whose write rejected is never yielded.
C19_WriteThenYield ==
    opts.writeToFileSystem =>
        /\ IF pc \in {"setup", "emit1"}
             THEN writeCalls = 0 /\ result.id = 1
             ELSE writeCalls = result.id
        /\ writeCalls >= 1 => lastWrite.result = writeCalls
        /\ yields >= 1 =>
              (lastYield.kind = "output" /\ lastYield.result = yields)
        /\ yields <= writeCalls /\ writeCalls <= yields + 1
        /\ pc \in {"writing1", "writing"} =>
              (yields = writeCalls - 1 /\ lastWrite.result = result.id)
        /\ pc \in {"yield1", "yield"} =>
              (yields = writeCalls /\ lastYield.result = result.id)
        /\ failure \in {"write1", "write"} =>
              (yields = writeCalls - 1 /\ lastYield.result # result.id)

C19_Witness ==
    /\ opts.writeToFileSystem
    /\ pc = "yield" /\ yields = 2 /\ writeCalls = 2
    /\ lastYield = [kind |-> "output", result |-> 2]

\* position of a file in a list without repetitions
PosIn(files, f) == CHOOSE i \in DOMAIN files : files[i] = f

\* kept is files restricted to the members satisfying the predicate, in the
\* order of files
IsFilterOf(kept, files) ==
    /\ Range(kept) = {f \in Range(files) : writeToFileSystemFilter(f)}
    /\ Len(kept) = Cardinality(Range(kept))
    /\ \A i, j \in DOMAIN kept :
          i < j => PosIn(files, kept[i]) < PosIn(files, kept[j])

\* C20: the write of a rebuild's result gets, with a predicate configured,
\* the result's output files that satisfy it, in their order, and without a
\* predicate all of them; the write of the initial result gets all its output
\* files either way; every write gets all asset files of the result.
C20_FilteredRebuildWrites ==
    (opts.writeToFileSystem /\ writeCalls >= 1) =>
        /\ lastWrite.result = result.id
        /\ lastWrite.assetFiles = result.assetFiles
        /\ lastWrite.result = 1 => lastWrite.outputFiles = result.outputFiles
        /\ (lastWrite.result >= 2 /\ ~opts.hasFilter) =>
              lastWrite.outputFiles = result.outputFiles
        /\ (lastWrite.result >= 2 /\ opts.hasFilter) =>
              IsFilterOf(lastWrite.outputFiles, result.outputFiles)

C20_Witness ==
    /\ opts.writeToFileSystem /\ opts.hasFilter
    /\ pc = "writing" /\ writeCalls = 2
    /\ result.outputFiles = <<"main.js", "main.js.map", "polyfills.js">>
    /\ lastWrite.outputFiles = <<"main.js", "polyfills.js">>
    /\ lastWrite.assetFiles = <<"assets/logo.svg", "assets/data.map">>

(* ======================== claims C21 - C23 ============================ *)

\* C21: the initial invocation of the action gets no rebuild state; the
\* invocation of a rebuild gets the rebuild state made by the result of the
\* build before it, the latest one produced, from the ChangeSet the watcher
\* handed over for this pass; every ChangeSet that is processed starts one
\* invocation, a ChangeSet dropped on cancellation starts none.
C21_RebuildStateOfLatestResult ==
    /\ pc = "building" =>
          /\ rebuildState = "none" /\ changes = "none"
          /\ actionCalls = 1 /\ delivered = 0 /\ result = NoResult
    /\ pc = "rebuilding" =>
          /\ changes \in ChangeSets
          /\ rebuildState = <<result.id, changes>>
          /\ result.id = actionCalls - 1 /\ result.id >= 1
          /\ actionCalls = delivered + 1
    /\ pc # "rebuilding" => changes = "none"
    /\ actionCalls >= 1 => delivered \in {actionCalls - 1, actionCalls}
    /\ (actionCalls >= 1 /\ delivered = actionCalls) =>
          (aborted /\ pc \in {"drain", "settling", "done"})

C21_Witness ==
    /\ pc = "rebuilding" /\ actionCalls = 3 /\ delivered = 2
    /\ changes = "chgB" /\ rebuildState = <<2, "chgB">>

\* C22: with watch false the pool is shut down exactly once in a run that
\* invokes the action, when the invocation has settled (resolved or rejected)
\* and before a result is emitted; with watch true it is not shut down while
\* the builds go on, and exactly once when the loop has been left through its
\* finally block.
C22_ShutdownOnce ==
    /\ shutdownCalls <= 1
    /\ ~opts.watch =>
          /\ shutdownCalls = 1 <=> (actionCalls = 1 /\ pc # "building")
          /\ yields >= 1 => shutdownCalls = 1
          /\ failure = "initial" => shutdownCalls = 1
          /\ actionCalls <= 1
    /\ opts.watch =>
          /\ pc # "done" => shutdownCalls = 0
          /\ pc = "done" => shutdownCalls = disposeCalls
          /\ (pc = "done" /\ actionCalls >= 2) => shutdownCalls = 1

C22_Witness ==
    /\ opts.watch /\ pc = "done" /\ shutdownCalls = 1
    /\ actionCalls = 3 /\ yields = 3 /\ failure = "none"

\* C23 as stated: once the watcher is closed, no step calls add, remove or
\* close on it.
C23_ClosedWatcherLeftAlone ==
    [][watcher = "closed" => UNCHANGED <<addCalls, removeCalls, closeCalls>>]_vars

=============================================================================
